---- MODULE Spec2Model ----
(***************************************************************************)
(* ccheckpoint: the CheckpointManager of src/src/checkpoint.ts as a state  *)
(* machine.  The project at process.cwd() is modelled by its working       *)
(* directory, the `snapshots` directory and the git index of its           *)
(* checkpoint directory, the stored commits and the two refs HEAD and      *)
(* ORIG_HEAD; the other projects, the hook, the settings files of the      *)
(* assistant and the configuration are what surrounds it.                  *)
(*                                                                         *)
(* Every public operation is a sequence of awaited calls; each call that   *)
(* changes state is one action, so that the states between two calls (the  *)
(* states an interruption leaves behind) are states of the model.          *)
(* Operations do not interleave: the program is single-threaded and each   *)
(* CLI invocation runs one operation to its end.                           *)
(*                                                                         *)
(* The specifications share the actions:                                   *)
(*   Spec         create, restore, cancelRestore over an edited working    *)
(*                tree                                                     *)
(*   SpecDiff     create, restore and diff, called with full and short ids *)
(*   SpecLog      create with several messages and clock readings, list    *)
(*                and status                                               *)
(*   SpecLong     a history longer than the default depth of list          *)
(*   SpecFull     every operation of the manager, clean included           *)
(*   SpecProjects the operations at several project paths                  *)
(*   SpecHook     handleClaudeCodeHook, with a create that may fail        *)
(*   SpecSetup    `ccheckpoint setup` over the settings files              *)
(*   SpecConfig   custom ignore patterns and create                        *)
(*   SpecIO       cancelRestore on a file system that may fail             *)
(*   SpecRead     the read operations, also without any commit             *)
(*   SpecView     every read operation between the writing operations      *)
(*   SpecRace     two processes on one project, interleaved step by step   *)
(*   SpecHookDir  the hook started outside the project directory           *)
(*   SpecLongUndo restore and cancelRestore on a long history              *)
(***************************************************************************)
EXTENDS Integers, Sequences, FiniteSets, TLC

VARIABLES
    work,          \* the project directory: file path -> content or Absent
    snap,          \* <checkpointDir>/snapshots: file path -> content or Absent
    index,         \* the git staging area of checkpointDir
    commits,       \* stored commits [tree, parent, message, timestamp];
                   \* the i-th stored has the id Oid(i)
    HEAD,          \* the commit HEAD resolves to, or NoRef
    ORIG_HEAD,     \* the commit ORIG_HEAD resolves to, or NoRef
    op,            \* the operation running or last run
    pc,            \* its position
    fullId,        \* restore: fullId; cancelRestore: origHead; create: sha
    items,         \* syncSnapshotsToProject: entries of readdir not yet visited
    todo,          \* syncSnapshotsToProject: files fs.copy has not yet written
    result,        \* outcome of the last completed operation
    arg,           \* the argument the operation was called with
    out,           \* what the operation returned (create, list, diff, status)
    pre,           \* work, refs, commits and undoUsed when op was called
    undoUsed,      \* history: a cancelRestore succeeded since the last restore
    restoredFrom,  \* history: HEAD before the most recent successful restore
    beforeRestore, \* history: work before the restore that ran last, if any
    projectPath,   \* what process.cwd() returns: the project operated on
    projects,      \* the checkpoint directories of the other project ids
    dirs,          \* the content of the other directories of the machine
    hook,          \* handleClaudeCodeHook: its position and how it ended
    stdout,        \* the decisions the hook has written to standard output
    settings,      \* the settings files of the assistant, one per location
    customPatterns,\* ignore.customPatterns of ~/.ccheckpoint/config.json
    peer           \* a second ccheckpoint process on the project: its op, pc
                   \* and locals while the first process runs

\* what lies outside the checkpoint directory of the project operated on
host == <<projectPath, projects, dirs, hook, stdout, settings, customPatterns,
         peer>>

vars == <<work, snap, index, commits, HEAD, ORIG_HEAD, op, pc, fullId, items,
          todo, result, arg, out, pre, undoUsed, restoredFrom, beforeRestore,
          host>>

(***************************************************************************)
(* Bounds of the model.                                                    *)
(***************************************************************************)
MaxCommits == 3

(***************************************************************************)
(* Files and their contents.                                               *)
(***************************************************************************)
Absent == "absent"

\* The paths a project may hold, relative to the project root.
Files == {"a.txt", "dist/o.js", "node_modules/m.js"}

\* The contents a file may have when the first operation runs.
InitChoices(p) == IF p = "a.txt" THEN {"1", "2", Absent} ELSE {"1", Absent}

\* The files the user edits between two operations (build output and
\* dependencies are there from the start or not at all).
Editable == {"a.txt"}

\* basename of process.cwd()
ProjectName == "proj"

NoRef == 0

Ids == 1..MaxCommits

NoFiles == [p \in Files |-> Absent]

(***************************************************************************)
(* String helpers: String.prototype.includes, path.basename, and the       *)
(* first segment and the ancestors of a relative path.                     *)
(***************************************************************************)
Includes(s, pattern) ==
    \E i \in 1..(Len(s) - Len(pattern) + 1) :
        SubSeq(s, i, i + Len(pattern) - 1) = pattern

Slashes(p) == {i \in 1..Len(p) : SubSeq(p, i, i) = "/"}

Max(S) == CHOOSE x \in S : \A y \in S : y <= x

Min(S) == CHOOSE x \in S : \A y \in S : x <= y

basename(p) ==
    IF Slashes(p) = {} THEN p ELSE SubSeq(p, Max(Slashes(p)) + 1, Len(p))

\* the entry of readdir(projectPath) under which file p lies
TopItem(p) ==
    IF Slashes(p) = {} THEN p ELSE SubSeq(p, 1, Min(Slashes(p)) - 1)

\* the directories fs.copy descends through to reach p, and p itself
Ancestors(p) == {SubSeq(p, 1, i - 1) : i \in Slashes(p)} \cup {p}

(***************************************************************************)
(* Ignore rules.                                                           *)
(***************************************************************************)
\* ignorePatterns of syncProjectToSnapshots
captureIgnorePatterns ==
    {"node_modules", ".git", ".ccheckpoint", "dist", "build", ".env*",
     "*.log", ".DS_Store"}

\* ignorePatterns of syncSnapshotsToProject
materializeIgnorePatterns == {"node_modules", ".git", ".ccheckpoint"}

\* the filter copyWithIgnore hands to fs.copy, for an entry with the given
\* path relative to the source and the given basename
filter(relativePath, base, ignorePatterns) ==
    ~\E pattern \in ignorePatterns :
        Includes(relativePath, pattern) \/ Includes(base, pattern)

\* fs.copy asks the filter for the source directory itself, then for every
\* entry it descends through; file p is copied when all of them pass
Copied(p, ignorePatterns) ==
    /\ filter("", ProjectName, ignorePatterns)
    /\ \A a \in Ancestors(p) : filter(a, basename(a), ignorePatterns)

\* fs.copy(source, dest, {filter}): files are added or overwritten in dest,
\* nothing is removed from dest
copyWithIgnore(source, dest, ignorePatterns) ==
    [p \in Files |->
        IF source[p] /= Absent /\ Copied(p, ignorePatterns)
        THEN source[p] ELSE dest[p]]

syncProjectToSnapshots(projectDir, snapshotsDir) ==
    copyWithIgnore(projectDir, snapshotsDir, captureIgnorePatterns)

\* the paths create leaves out of a checkpoint
CaptureIgnored(p) == ~Copied(p, captureIgnorePatterns)

\* fs.readdir(projectPath)
readdir(dir) == {TopItem(p) : p \in {q \in Files : dir[q] /= Absent}}

\* the test of the removal loop of syncSnapshotsToProject
KeptItem(item) ==
    \E pattern \in materializeIgnorePatterns : Includes(item, pattern)

\* fs.remove(path.join(projectPath, item))
remove(dir, item) ==
    [p \in Files |-> IF TopItem(p) = item THEN Absent ELSE dir[p]]

\* the files fs.copy(snapshotsDir, projectPath) writes
CopyList(snapshotsDir) == {p \in Files : snapshotsDir[p] /= Absent}

(***************************************************************************)
(* Commits and refs.                                                       *)
(***************************************************************************)
Stored(id) == id \in 1..Len(commits)

Digit(d) == SubSeq("0123456789", d + 1, d + 1)

\* the object ids: hashes, here fixed-length hexadecimal strings in which
\* commits share their first character
Oids ==
    [i \in 0..999 |->
        (IF i % 2 = 1 THEN "a" ELSE "b")
            \o Digit((i \div 100) % 10) \o Digit((i \div 10) % 10)
            \o Digit(i % 10)]

\* the object id of the i-th commit stored
Oid(i) == Oids[i]

StartsWith(s, prefix) ==
    Len(prefix) <= Len(s) /\ SubSeq(s, 1, Len(prefix)) = prefix

\* the strings each object id starts with
OidPrefixes ==
    [i \in DOMAIN Oids |-> {SubSeq(Oids[i], 1, n) : n \in 0..Len(Oids[i])}]

\* the stored commits whose id starts with the given string
Matches(id) == {i \in 1..Len(commits) : id \in OidPrefixes[i]}

\* a resolution that settles an ambiguous short id on one of its matches
expandOid_first(oid) ==
    IF Matches(oid) = {} THEN [error |-> "NotFoundError", oid |-> NoRef]
    ELSE [error |-> "none", oid |-> CHOOSE i \in Matches(oid) : TRUE]

\* git.expandOid: the one object whose id starts with oid, NotFoundError
\* when there is none, AmbiguousError when there are several
expandOid(oid) ==
    IF Matches(oid) = {} THEN [error |-> "NotFoundError", oid |-> NoRef]
    ELSE IF Cardinality(Matches(oid)) > 1
    THEN [error |-> "AmbiguousError", oid |-> NoRef]
    ELSE [error |-> "none", oid |-> CHOOSE i \in Matches(oid) : TRUE]

\* an operation's parameters; the empty string and 0 stand for a parameter
\* left out (both are falsy where the code tests them)
NoArgs == [id |-> "", message |-> "", sessionId |-> "", limit |-> 0,
           days |-> 0, now |-> 0]

\* the message of `ccheckpoint create` without -m
DefaultMessage == "Manual checkpoint"

\* the clock of the main specification, in seconds
Epoch == 0

\* str.slice(0, n)
slice(str, n) == SubSeq(str, 1, Min({n, Len(str)}))

RECURSIVE replaceFrom(_, _, _, _)
\* str.replace(/c/g, by) from the i-th character on
replaceFrom(str, i, c, by) ==
    IF i > Len(str) THEN ""
    ELSE (IF SubSeq(str, i, i) = c THEN by ELSE SubSeq(str, i, i))
             \o replaceFrom(str, i + 1, c, by)

\* str.replace(/c/g, by)
replaceAll(str, c, by) == replaceFrom(str, 1, c, by)

\* str.replace(/c/g, '')
removeAll(str, c) == replaceAll(str, c, "")

RECURSIVE afterRun(_, _, _)
\* the position after the run of c that starts at the i-th character
afterRun(str, i, c) ==
    IF i <= Len(str) /\ SubSeq(str, i, i) = c THEN afterRun(str, i + 1, c)
    ELSE i

\* str.replace(/^c+/, '')
trimStart(str, c) == SubSeq(str, afterRun(str, 1, c), Len(str))

RECURSIVE beforeRun(_, _, _)
\* the position before the run of c that ends at the i-th character
beforeRun(str, i, c) ==
    IF i >= 1 /\ SubSeq(str, i, i) = c THEN beforeRun(str, i - 1, c)
    ELSE i

\* str.replace(/c+$/, '')
trimEnd(str, c) == SubSeq(str, 1, beforeRun(str, Len(str), c))

\* the message git.commit stores and git.log reads back: isomorphic-git
\* strips carriage returns and leading newlines and ends the message with
\* exactly one newline
normalizeNewlines(str) ==
    trimEnd(trimStart(removeAll(str, "\r"), "\n"), "\n") \o "\n"

\* the ids and short ids restore is called with
RestoreArgs == {Oid(i) : i \in Ids} \cup {"a", "b"}

\* the tree of a stored commit, as the files under snapshots/
TreeOf(id) == commits[id].tree

\* checkout with the call left out: snapshots/ stays as the last create or
\* restore left it
checkout_skipped(id, dir, idx) == dir

\* git.checkout({ref, filepaths: ['snapshots'], force: true}): tracked files
\* are rewritten to the commit's tree, tracked files absent from it removed,
\* untracked files left alone; the index follows
checkout(id, dir, idx) ==
    [p \in Files |->
        IF TreeOf(id)[p] /= Absent THEN TreeOf(id)[p]
        ELSE IF idx[p] /= Absent THEN Absent
        ELSE dir[p]]

\* git.add({filepath: '.'}): every file present is staged; entries of files
\* no longer present stay staged
add(dir, idx) ==
    [p \in Files |-> IF dir[p] /= Absent THEN dir[p] ELSE idx[p]]

Context == [work |-> work, HEAD |-> HEAD, ORIG_HEAD |-> ORIG_HEAD,
            undoUsed |-> undoUsed, commits |-> commits]

Idle == pc = "done"

\* beforeRestore when the operation that ran last was not a restore
NoBackup == [valid |-> FALSE, work |-> NoFiles]

(***************************************************************************)
(* Projects.  A path is the sequence of its segments below the root; the   *)
(* machine has the directories /p and /q and the symbolic link             *)
(* /link -> /p.                                                            *)
(***************************************************************************)
Paths == {<<"p">>, <<"p", ".">>, <<"q", "..", "p">>, <<"link">>, <<"q">>}

\* the symbolic links of the machine and their targets
Links == {<<"link">>}

target(link) == <<"p">>

RECURSIVE normalize(_, _)
\* path.normalize, segment by segment: `.` is dropped, `..` drops the
\* segment before it
normalize(done, rest) ==
    IF rest = <<>> THEN done
    ELSE LET s == Head(rest)
         IN  normalize(IF s = "." THEN done
                       ELSE IF s = ".."
                            THEN SubSeq(done, 1, Max({Len(done) - 1, 0}))
                            ELSE Append(done, s),
                       Tail(rest))

\* path.resolve of an absolute path: lexical, no link is followed
resolve(path) == normalize(<<>>, path)

RECURSIVE physical(_, _)
\* the directory a path denotes: every link on the way is followed
physical(done, rest) ==
    IF rest = <<>> THEN done
    ELSE LET s == Head(rest)
             next == IF s = "." THEN done
                     ELSE IF s = ".."
                          THEN SubSeq(done, 1, Max({Len(done) - 1, 0}))
                          ELSE Append(done, s)
         IN  physical(IF next \in Links THEN target(next) ELSE next,
                      Tail(rest))

realpath(path) == physical(<<>>, path)

RECURSIVE join(_)
\* the absolute path as a string (POSIX separators)
join(path) ==
    IF path = <<>> THEN ""
    ELSE join(SubSeq(path, 1, Len(path) - 1)) \o "/" \o path[Len(path)]

\* crypto.createHash('md5').update(str).digest('hex') of the absolute paths
\* of the machine
md5 ==
    [str \in {join(resolve(path)) : path \in Paths} |->
        CASE str = "/p"    -> "b86493d2ae255a02bb7ea61e7fb77c10"
          [] str = "/q"    -> "96ce73b1d148e372f92c9d0292f545b5"
          [] str = "/link" -> "a43e3ebcaba491042329ae276fc4f204"]

getProjectId(projectPath_) ==
    LET absolutePath == join(resolve(projectPath_))
    IN  slice(md5[absolutePath], 12)

ProjectIds == {getProjectId(path) : path \in Paths}

Dirs == {realpath(path) : path \in Paths}

\* process.cwd() after a chdir to path: the physical directory where the
\* platform reports it (getcwd of POSIX), the path as it was given,
\* normalized, where the platform keeps it (the current directory of win32)
cwd(path) == {realpath(path), resolve(path)}

\* the directory the program starts in
StartPath == <<"p">>

\* a checkpoint directory that does not exist yet
NoRepository ==
    [snap |-> NoFiles, index |-> NoFiles, commits |-> <<>>, HEAD |-> NoRef,
     ORIG_HEAD |-> NoRef, undoUsed |-> FALSE, restoredFrom |-> NoRef,
     beforeRestore |-> NoBackup]

\* the checkpoint directory of the project operated on
Repository ==
    [snap |-> snap, index |-> index, commits |-> commits, HEAD |-> HEAD,
     ORIG_HEAD |-> ORIG_HEAD, undoUsed |-> undoUsed,
     restoredFrom |-> restoredFrom, beforeRestore |-> beforeRestore]

(***************************************************************************)
(* The settings files of the assistant.  A file that parses is the JSON    *)
(* object it holds: a key outside `hooks`, the entries of another event    *)
(* and the entries of hooks.UserPromptSubmit; an entry is the sequence of  *)
(* the commands of its `hooks` array.  `backup` tells whether the file     *)
(* <path>.backup exists.                                                   *)
(***************************************************************************)
\* ~/.claude/settings.json, <cwd>/.claude/settings.json and
\* <cwd>/.claude/settings.local.json, in the order they are looked up
possibleConfigPaths == <<"global", "project", "local">>

\* no file at the path
NoFile ==
    [exists |-> FALSE, json |-> TRUE, model |-> "", hooks |-> FALSE,
     PreToolUse |-> <<>>, hasUserPromptSubmit |-> FALSE,
     UserPromptSubmit |-> <<>>, backup |-> FALSE]

\* the empty JSON object
EmptySettings == [NoFile EXCEPT !.exists = TRUE]

\* a file that does not parse
Unparsable == [NoFile EXCEPT !.exists = TRUE, !.json = FALSE]

\* handleClaudeCodeHook has not been called
NoHook ==
    [pc |-> "none", hook_event_name |-> "", session_id |-> "", prompt |-> "",
     projectDir |-> <<>>, originalCwd |-> <<>>]

\* the second process, which has not called any operation
NoProcess ==
    [process |-> 2, op |-> "none", pc |-> "done", fullId |-> NoRef, items |-> {},
     todo |-> {}, result |-> "ok", arg |-> NoArgs, out |-> <<>>,
     pre |-> [work |-> NoFiles, HEAD |-> NoRef, ORIG_HEAD |-> NoRef,
              undoUsed |-> FALSE, commits |-> <<>>],
     beforeRestore |-> NoBackup]

NoSettings ==
    [configPath \in {possibleConfigPaths[i] : i \in 1..3} |-> NoFile]

(***************************************************************************)
(* The initial state: no checkpoint directory yet, any project content.    *)
(***************************************************************************)
InitHost ==
    /\ projectPath = StartPath
    /\ projects = [id \in ProjectIds |-> NoRepository]
    /\ dirs = [d \in Dirs |-> NoFiles]
    /\ hook = NoHook
    /\ stdout = <<>>
    /\ settings = NoSettings
    /\ customPatterns = <<>>
    /\ peer = NoProcess

InitRepository ==
    /\ work \in {w \in [Files -> {"1", "2", Absent}] :
                    \A p \in Files : w[p] \in InitChoices(p)}
    /\ snap = NoFiles
    /\ index = NoFiles
    /\ commits = <<>>
    /\ HEAD = NoRef
    /\ ORIG_HEAD = NoRef
    /\ op = "none"
    /\ pc = "done"
    /\ fullId = NoRef
    /\ items = {}
    /\ todo = {}
    /\ result = "ok"
    /\ arg = NoArgs
    /\ out = <<>>
    /\ undoUsed = FALSE
    /\ restoredFrom = NoRef
    /\ beforeRestore = NoBackup
    /\ pre = [work |-> work, HEAD |-> NoRef, ORIG_HEAD |-> NoRef,
              undoUsed |-> FALSE, commits |-> <<>>]

Init == InitRepository /\ InitHost

(***************************************************************************)
(* The user edits the project between two operations.                      *)
(***************************************************************************)
Edit ==
    /\ Idle
    /\ \E p \in Editable :
        \E c \in InitChoices(p) :
            /\ c /= work[p]
            /\ work' = [work EXCEPT ![p] = c]
    /\ op' = "edit"
    /\ result' = "ok"
    /\ arg' = NoArgs
    /\ out' = <<>>
    /\ pre' = [Context EXCEPT !.work = work']
    /\ beforeRestore' = NoBackup
    /\ UNCHANGED <<host, snap, index, commits, HEAD, ORIG_HEAD, pc, fullId, items,
                   todo, undoUsed, restoredFrom>>

(***************************************************************************)
(* create                                                                  *)
(***************************************************************************)
\* git.commit: the commit is stored with the commit HEAD resolves to as its
\* parent.  The library then writes the ref HEAD points to: the unborn
\* branch of a fresh repository (HEAD then resolves to the new commit), or,
\* once HEAD is detached, a ref that HEAD does not read.
commitRef(head, sha) == IF head = NoRef THEN sha ELSE head

\* create called with one of the given messages, in one of the given
\* sessions, while fewer than cap commits are stored:
\* ensureDir, git.init, syncProjectToSnapshots
create_call(messages, sessions, cap) ==
    /\ Idle
    /\ Len(commits) < cap
    /\ op' = "create"
    /\ pre' = Context
    /\ result' = "pending"
    /\ \E m \in messages, sid \in sessions :
          arg' = [NoArgs EXCEPT !.message = m, !.sessionId = sid]
    /\ out' = <<>>
    /\ beforeRestore' = NoBackup
    /\ snap' = syncProjectToSnapshots(work, snap)
    /\ pc' = "add"
    /\ UNCHANGED <<host, work, index, commits, HEAD, ORIG_HEAD, fullId, items, todo,
                   undoUsed, restoredFrom>>

\* `ccheckpoint create` without a message (cli.ts:95), outside any session
create_sync == create_call({DefaultMessage}, {""}, MaxCommits)

\* git.add
create_add ==
    /\ op = "create" /\ pc = "add"
    /\ index' = add(snap, index)
    /\ pc' = "commit"
    /\ UNCHANGED <<host, arg, out, work, snap, commits, HEAD, ORIG_HEAD, op, fullId, items,
                   todo, result, pre, undoUsed, restoredFrom, beforeRestore>>

\* git.commit at one of the given times of the clock (seconds)
create_commitAt(times) ==
    /\ op = "create" /\ pc = "commit"
    /\ \E t \in times :
          commits' = Append(commits, [tree |-> index, parent |-> HEAD,
                                      message |-> normalizeNewlines(arg.message),
                                      timestamp |-> t])
    /\ fullId' = Len(commits) + 1
    /\ HEAD' = commitRef(HEAD, Len(commits) + 1)
    /\ pc' = "writeRef"
    /\ UNCHANGED <<host, arg, out, work, snap, index, ORIG_HEAD, op, items, todo, result, pre,
                   undoUsed, restoredFrom, beforeRestore>>

\* git.commit while the clock stands at Epoch
create_commit == create_commitAt({Epoch})

\* a create that ends by dropping the pending restore
create_writeRef_clearOrig ==
    /\ op = "create" /\ pc = "writeRef"
    /\ HEAD' = fullId
    /\ ORIG_HEAD' = NoRef
    /\ pc' = "done"
    /\ result' = "ok"
    /\ out' = [id |-> Oid(fullId),
               sessionId |-> IF arg.sessionId /= "" THEN arg.sessionId
                             ELSE "manual",
               message |-> arg.message]
    /\ UNCHANGED <<host, arg, work, snap, index, commits, op, fullId, items,
                   todo, pre, undoUsed, restoredFrom, beforeRestore>>

\* a create that returns its checkpoint without writing HEAD
create_writeRef_skipped ==
    /\ op = "create" /\ pc = "writeRef"
    /\ pc' = "done"
    /\ result' = "ok"
    /\ out' = [id |-> Oid(fullId),
               sessionId |-> IF arg.sessionId /= "" THEN arg.sessionId
                             ELSE "manual",
               message |-> arg.message]
    /\ UNCHANGED <<host, arg, work, snap, index, commits, HEAD, ORIG_HEAD, op,
                   fullId, items, todo, pre, undoUsed, restoredFrom,
                   beforeRestore>>

\* git.writeRef({ref: 'HEAD', value: sha}), return checkpointData
create_writeRef ==
    /\ op = "create" /\ pc = "writeRef"
    /\ HEAD' = fullId
    /\ pc' = "done"
    /\ result' = "ok"
    /\ out' = [id |-> Oid(fullId),
               sessionId |-> IF arg.sessionId /= "" THEN arg.sessionId
                             ELSE "manual",
               message |-> arg.message]
    /\ UNCHANGED <<host, arg, work, snap, index, commits, ORIG_HEAD, op, fullId, items,
                   todo, pre, undoUsed, restoredFrom, beforeRestore>>

(***************************************************************************)
(* list and status                                                         *)
(***************************************************************************)
\* git.log without a depth
Unbounded == -1

\* the depth list gives git.log when it is called without a limit
DefaultDepth == 100

RECURSIVE ancestor(_, _)
\* the commit k parent links above commit id, NoRef past the root
ancestor(id, k) ==
    IF id = NoRef \/ k = 0 THEN id
    ELSE IF k = 1 THEN commits[id].parent
    ELSE ancestor(ancestor(id, k \div 2), k - (k \div 2))

\* the parent chain from commit id, depth commits at most
history(id, depth) ==
    LET length == Cardinality({k \in 0..(Len(commits) - 1) :
                                  ancestor(id, k) /= NoRef})
        walked == IF depth = Unbounded THEN length
                  ELSE Min({depth, length})
    IN  [i \in 1..walked |-> ancestor(id, i - 1)]

\* git.log({depth}): the commits reachable from HEAD, HEAD first, as
\* {oid, commit: {message, committer: {timestamp}}}
log(depth) ==
    LET ids == history(HEAD, depth)
    IN  [i \in 1..Len(ids) |->
            [oid |-> Oid(ids[i]),
             message |-> commits[ids[i]].message,
             timestamp |-> commits[ids[i]].timestamp]]

SessionPrefix == "Session: "

SessionChars == "abcdef0123456789-"

RECURSIVE run(_, _)
\* how many characters of [a-f0-9-] the message holds from position i on
run(message, i) ==
    IF i <= Len(message) /\ Includes(SessionChars, SubSeq(message, i, i))
    THEN 1 + run(message, i + 1)
    ELSE 0

\* message.match(/^Session: ([a-f0-9-]+) - (.+)$/): the two groups, or no
\* match; `.` matches no line terminator and `$` only the end of the input
sessionMatch(message) ==
    LET k == run(message, Len(SessionPrefix) + 1)
        sep == Len(SessionPrefix) + k + 1
        text == SubSeq(message, sep + 3, Len(message))
    IN  IF /\ StartsWith(message, SessionPrefix)
           /\ k >= 1
           /\ SubSeq(message, sep, Min({sep + 2, Len(message)})) = " - "
           /\ text /= ""
           /\ ~Includes(text, "\n") /\ ~Includes(text, "\r")
        THEN <<SubSeq(message, Len(SessionPrefix) + 1, sep - 1), text>>
        ELSE <<>>

\* parseCommitMessage, with the timestamp list and status then give the
\* entry: the commit's seconds as an ISO date, read back in milliseconds
parseCommitMessage(message, oid, seconds) ==
    IF sessionMatch(message) /= <<>>
    THEN [id |-> oid, sessionId |-> sessionMatch(message)[1],
          message |-> sessionMatch(message)[2], timestamp |-> seconds * 1000]
    ELSE [id |-> oid, sessionId |-> "manual",
          message |-> message, timestamp |-> seconds * 1000]

checkpointsOf(cs) ==
    [i \in 1..Len(cs) |->
        parseCommitMessage(cs[i].message, cs[i].oid, cs[i].timestamp)]

\* the place a stable sort by (a, b) => b.timestamp - a.timestamp gives
\* the i-th entry: after every newer entry and after the entries of the
\* same time that stood before it
rank(cps, i) ==
    1 + Cardinality({j \in 1..Len(cps) :
                        \/ cps[j].timestamp > cps[i].timestamp
                        \/ cps[j].timestamp = cps[i].timestamp /\ j < i})

\* checkpoints.sort((a, b) => time(b) - time(a)): newest first, entries of
\* equal time in the order they had
sort(cps) ==
    LET place == [i \in 1..Len(cps) |-> rank(cps, i)]
    IN  [k \in 1..Len(cps) |->
            cps[CHOOSE i \in 1..Len(cps) : place[i] = k]]

\* list(options); git.log throws while HEAD resolves to nothing, and list
\* then returns []
list(options) ==
    LET depth == IF options.limit /= 0 THEN options.limit ELSE DefaultDepth
        checkpoints == sort(checkpointsOf(log(depth)))
        filtered ==
            IF options.sessionId /= ""
            THEN SelectSeq(checkpoints,
                           LAMBDA cp : StartsWith(cp.sessionId,
                                                  options.sessionId))
            ELSE checkpoints
    IN  IF HEAD = NoRef THEN <<>>
        ELSE IF options.limit /= 0
        THEN SubSeq(filtered, 1, Min({options.limit, Len(filtered)}))
        ELSE filtered

\* status(): totalCheckpoints and latest (no entry when there is none)
status ==
    LET allCheckpoints ==
            IF HEAD = NoRef THEN <<>>
            ELSE sort(checkpointsOf(log(Unbounded)))
    IN  [totalCheckpoints |-> Len(allCheckpoints),
         latest |-> IF allCheckpoints = <<>> THEN <<>>
                    ELSE <<allCheckpoints[1]>>]

\* an operation that only reads the repository, and how it ends
Read(name, args, value, outcome) ==
    /\ Idle
    /\ op' = name
    /\ pre' = Context
    /\ arg' = args
    /\ out' = value
    /\ result' = outcome
    /\ UNCHANGED <<host, work, snap, index, commits, HEAD, ORIG_HEAD, pc, fullId,
                   items, todo, undoUsed, restoredFrom, beforeRestore>>

Query(name, args, value) == Read(name, args, value, "ok")

\* list called with one of the given limits and session filters
list_call(limits, sessionIds) ==
    \E limit \in limits, sid \in sessionIds :
        Query("list", [NoArgs EXCEPT !.limit = limit, !.sessionId = sid],
              list([NoArgs EXCEPT !.limit = limit, !.sessionId = sid]))

\* a status that lets the error of git.log through
status_call_throwing ==
    Read("status", NoArgs, status, IF HEAD = NoRef THEN "GitError" ELSE "ok")

status_call == Query("status", NoArgs, status)

\* getCurrentCheckpoint(): what HEAD resolves to, nothing (null) when
\* git.resolveRef throws
getCurrentCheckpoint == IF HEAD = NoRef THEN <<>> ELSE <<Oid(HEAD)>>

getCurrentCheckpoint_call ==
    Query("getCurrentCheckpoint", NoArgs, getCurrentCheckpoint)

(***************************************************************************)
(* clean                                                                   *)
(***************************************************************************)
SecondsPerDay == 86400

\* cutoffDate, in milliseconds: the clock reading set back by days
cutoffDate(now, days) == (now - days * SecondsPerDay) * 1000

\* a clean that counts every stored commit older than the cutoff
clean_stored(days, now) ==
    Cardinality({i \in 1..Len(commits) :
                    commits[i].timestamp * 1000 < cutoffDate(now, days)})

\* clean(days) at clock reading now: removedCount, the commits git.log
\* returns that are older than the cutoff; 0 where git.log throws
clean(days, now) ==
    IF HEAD = NoRef THEN 0
    ELSE Cardinality({i \in 1..Len(log(Unbounded)) :
                         log(Unbounded)[i].timestamp * 1000
                             < cutoffDate(now, days)})

\* a clean that prunes: commits past HEAD's are dropped from the store
clean_call_pruning(dayss, nows) ==
    \E days \in dayss, now \in nows :
        /\ Idle
        /\ op' = "clean"
        /\ pre' = Context
        /\ arg' = [NoArgs EXCEPT !.days = days, !.now = now]
        /\ out' = clean(days, now)
        /\ result' = "ok"
        /\ commits' = SubSeq(commits, 1, HEAD)
        /\ UNCHANGED <<host, work, snap, index, HEAD, ORIG_HEAD, pc, fullId,
                       items, todo, undoUsed, restoredFrom, beforeRestore>>

\* clean called with one of the given numbers of days, at one of the given
\* clock readings (seconds)
clean_call(dayss, nows) ==
    \E days \in dayss, now \in nows :
        Query("clean", [NoArgs EXCEPT !.days = days, !.now = now],
              clean(days, now))

(***************************************************************************)
(* diff                                                                    *)
(***************************************************************************)
\* the length of a full object id
OidLength == Len(Oid(1))

\* the directory of the checkpoint repository the project is copied to
SnapshotsDir == "snapshots"

EmptyTree == [error |-> "none", tree |-> NoFiles]

\* git.TREE({ref}): a full object id is taken as it is and its tree read,
\* which throws when no such object is stored; anything else is looked up
\* as a ref name, and where no ref has that name the walker reads the empty
\* tree (short ids are not expanded)
TREE(ref) ==
    IF Len(ref) /= OidLength THEN EmptyTree
    ELSE IF Matches(ref) = {} THEN [error |-> "NotFoundError", tree |-> NoFiles]
    ELSE [error |-> "none", tree |-> TreeOf(CHOOSE i \in Matches(ref) : TRUE)]

\* the paths of a tree of the checkpoint repository, directories included
pathsOf(tree) ==
    UNION {Ancestors(SnapshotsDir \o "/" \o p) :
              p \in {f \in Files : tree[f] /= Absent}}

\* the order in which a walk visits the paths below the root
WalkOrder ==
    <<"snapshots", "snapshots/a.txt", "snapshots/dist", "snapshots/dist/o.js",
      "snapshots/node_modules", "snapshots/node_modules/m.js">>

\* whether the entry of a walked tree at filepath exists
present(tree, filepath) == filepath \in pathsOf(tree)

\* A.oid !== B.oid: oid is a method of the entries of isomorphic-git, and
\* each walker builds its own entry class, so the two are never identical
oidsDiffer(A, B, filepath) == TRUE

\* the callback of lines 334-348 applied to one path
callback(A, B, filepath) ==
    IF present(A, filepath) /\ ~present(B, filepath)
    THEN <<[type |-> "deleted", path |-> filepath]>>
    ELSE IF ~present(A, filepath) /\ present(B, filepath)
    THEN <<[type |-> "added", path |-> filepath]>>
    ELSE IF present(A, filepath) /\ present(B, filepath)
            /\ oidsDiffer(A, B, filepath)
    THEN <<[type |-> "modified", path |-> filepath]>>
    ELSE <<>>

RECURSIVE visit(_, _, _)
\* the changes the callback pushes over the given paths, in order
visit(A, B, paths) ==
    IF paths = <<>> THEN <<>>
    ELSE callback(A, B, Head(paths)) \o visit(A, B, Tail(paths))

\* a git.walk whose result carries a walk method that runs the callback
hasWalkMethod_present == TRUE

\* git.walk resolves to what its reduce returns, by default the flat array
\* of the walked entries; an array has no method named walk
hasWalkMethod == FALSE

\* a diff whose callback is run over the paths of both trees
diff_visit(id) ==
    visit(TREE(id).tree, TREE(Oid(HEAD)).tree, WalkOrder)

\* a diff that compares the commit with the working tree
diff_worktree(id) ==
    visit(TREE(id).tree, work, WalkOrder)

\* diff(id) once HEAD is resolved: git.walk reads both trees and throws if
\* one cannot be read; `(await walker).walk(...)` then throws a TypeError
\* unless the result has a walk method; the catch logs either error and
\* diff returns the changes pushed so far
diff(id) ==
    LET A == TREE(id)
        B == TREE(Oid(HEAD))
    IN  IF A.error /= "none" \/ B.error /= "none" THEN <<>>
        ELSE IF ~hasWalkMethod THEN <<>>
        ELSE visit(A.tree, B.tree, WalkOrder)

\* diff called with one of the given ids; git.resolveRef('HEAD') is outside
\* the try and throws while there is no commit
diff_call(ids) ==
    \E id \in ids :
        IF HEAD = NoRef
        THEN Read("diff", [NoArgs EXCEPT !.id = id], <<>>, "GitError")
        ELSE Query("diff", [NoArgs EXCEPT !.id = id], diff(id))

(***************************************************************************)
(* syncSnapshotsToProject, shared by restore and cancelRestore             *)
(***************************************************************************)
\* the operation returns without an error
Completed ==
    /\ pc' = "done"
    /\ result' = "ok"
    /\ undoUsed' = (op = "cancelRestore")
    /\ restoredFrom' = IF op = "restore" THEN pre.HEAD ELSE restoredFrom
    /\ beforeRestore' = IF op = "restore"
                        THEN [valid |-> TRUE, work |-> pre.work]
                        ELSE beforeRestore

Continue(next) ==
    /\ pc' = next
    /\ UNCHANGED <<host, result, undoUsed, restoredFrom, beforeRestore>>

\* where syncSnapshotsToProject stands with `its` left to visit in the
\* removal loop and `files` left to copy
Proceed(its, files) ==
    IF its /= {} THEN Continue("remove")
    ELSE IF files /= {} THEN Continue("copy")
    ELSE Completed

\* one iteration of the removal loop; after the last one fs.copy starts
sync_remove ==
    /\ op \in {"restore", "cancelRestore"} /\ pc = "remove"
    /\ \E item \in items :
        /\ work' = IF KeptItem(item) THEN work ELSE remove(work, item)
        /\ items' = items \ {item}
        /\ todo' = IF items' = {} THEN CopyList(snap) ELSE todo
        /\ Proceed(items', todo')
    /\ UNCHANGED <<host, arg, out, snap, index, commits, HEAD, ORIG_HEAD, op, fullId, pre>>

\* fs.copy(snapshotsDir, projectPath) writes one file
sync_copy ==
    /\ op \in {"restore", "cancelRestore"} /\ pc = "copy"
    /\ \E p \in todo :
        /\ work' = [work EXCEPT ![p] = snap[p]]
        /\ todo' = todo \ {p}
        /\ Proceed({}, todo')
    /\ UNCHANGED <<host, arg, out, snap, index, commits, HEAD, ORIG_HEAD, op, fullId, items,
                   pre>>

(***************************************************************************)
(* restore                                                                 *)
(***************************************************************************)
\* git.expandOid and git.readCommit, each in a try whose catch throws
\* `Checkpoint ${id} not found` whatever the error was; then
\* git.resolveRef('HEAD')
restore_resolve ==
    /\ Idle
    /\ \E id \in RestoreArgs :
        /\ op' = "restore"
        /\ pre' = Context
        /\ arg' = [NoArgs EXCEPT !.id = id]
        /\ out' = <<>>
        /\ IF expandOid(id).error /= "none" \/ ~Stored(expandOid(id).oid)
           THEN /\ result' = "NotFound"
                /\ pc' = "done"
                /\ UNCHANGED fullId
           ELSE IF HEAD = NoRef
           THEN /\ result' = "GitError"
                /\ pc' = "done"
                /\ UNCHANGED fullId
           ELSE /\ result' = "pending"
                /\ pc' = "saveOrig"
                /\ fullId' = expandOid(id).oid
    /\ beforeRestore' = NoBackup
    /\ UNCHANGED <<host, work, snap, index, commits, HEAD, ORIG_HEAD, items, todo,
                   undoUsed, restoredFrom>>

\* restore_saveOrigHead with the write left out
restore_saveOrigHead_skipped ==
    /\ op = "restore" /\ pc = "saveOrig"
    /\ pc' = "resetHead"
    /\ UNCHANGED <<host, arg, out, work, snap, index, commits, HEAD, ORIG_HEAD, op, fullId,
                   items, todo, result, pre, undoUsed, restoredFrom,
                   beforeRestore>>

\* restore_saveOrigHead keeping an ORIG_HEAD that is already there
restore_saveOrigHead_keepFirst ==
    /\ op = "restore" /\ pc = "saveOrig"
    /\ ORIG_HEAD' = IF ORIG_HEAD = NoRef THEN HEAD ELSE ORIG_HEAD
    /\ pc' = "resetHead"
    /\ UNCHANGED <<host, arg, out, work, snap, index, commits, HEAD, op, fullId, items, todo,
                   result, pre, undoUsed, restoredFrom, beforeRestore>>

\* restore_saveOrigHead saving the commit restored to
restore_saveOrigHead_target ==
    /\ op = "restore" /\ pc = "saveOrig"
    /\ ORIG_HEAD' = fullId
    /\ pc' = "resetHead"
    /\ UNCHANGED <<host, arg, out, work, snap, index, commits, HEAD, op, fullId, items, todo,
                   result, pre, undoUsed, restoredFrom, beforeRestore>>

\* git.writeRef({ref: 'ORIG_HEAD', value: currentHead})
restore_saveOrigHead ==
    /\ op = "restore" /\ pc = "saveOrig"
    /\ ORIG_HEAD' = HEAD
    /\ pc' = "resetHead"
    /\ UNCHANGED <<host, arg, out, work, snap, index, commits, HEAD, op, fullId, items, todo,
                   result, pre, undoUsed, restoredFrom, beforeRestore>>

\* restore_resetHead with the write of HEAD put off until after the sync
restore_resetHead_deferred ==
    /\ op = "restore" /\ pc = "resetHead"
    /\ pc' = "checkout"
    /\ UNCHANGED <<host, arg, out, work, snap, index, commits, HEAD, ORIG_HEAD, op, fullId,
                   items, todo, result, pre, undoUsed, restoredFrom,
                   beforeRestore>>

\* git.writeRef({ref: 'HEAD', value: fullId})
restore_resetHead ==
    /\ op = "restore" /\ pc = "resetHead"
    /\ HEAD' = fullId
    /\ pc' = "checkout"
    /\ UNCHANGED <<host, arg, out, work, snap, index, commits, ORIG_HEAD, op, fullId, items,
                   todo, result, pre, undoUsed, restoredFrom, beforeRestore>>

\* git.checkout({ref: fullId, filepaths: ['snapshots'], force: true}), then
\* syncSnapshotsToProject reads the project directory
restore_checkout ==
    /\ op = "restore" /\ pc = "checkout"
    /\ snap' = checkout(fullId, snap, index)
    /\ index' = TreeOf(fullId)
    /\ items' = readdir(work)
    /\ todo' = IF items' = {} THEN CopyList(snap') ELSE todo
    /\ Proceed(items', todo')
    /\ UNCHANGED <<host, arg, out, work, commits, HEAD, ORIG_HEAD, op, fullId, pre>>

(***************************************************************************)
(* cancelRestore                                                           *)
(***************************************************************************)
\* cancelRestore_resolve resolving 'HEAD' where 'ORIG_HEAD' is meant
cancelRestore_resolve_HEAD ==
    /\ Idle
    /\ op' = "cancelRestore"
    /\ pre' = Context
    /\ arg' = NoArgs
    /\ out' = <<>>
    /\ IF HEAD = NoRef
       THEN /\ result' = "NoPendingRestore"
            /\ pc' = "done"
            /\ UNCHANGED fullId
       ELSE /\ result' = "pending"
            /\ pc' = "resetHead"
            /\ fullId' = HEAD
    /\ beforeRestore' = IF op = "restore" /\ result = "ok"
                        THEN beforeRestore ELSE NoBackup
    /\ UNCHANGED <<host, work, snap, index, commits, HEAD, ORIG_HEAD, items, todo,
                   undoUsed, restoredFrom>>

\* git.resolveRef('ORIG_HEAD'); every error thrown inside cancelRestore is
\* rethrown as 'No restore to cancel - ORIG_HEAD not found'
cancelRestore_resolve ==
    /\ Idle
    /\ op' = "cancelRestore"
    /\ pre' = Context
    /\ arg' = NoArgs
    /\ out' = <<>>
    /\ IF ORIG_HEAD = NoRef
       THEN /\ result' = "NoPendingRestore"
            /\ pc' = "done"
            /\ UNCHANGED fullId
       ELSE /\ result' = "pending"
            /\ pc' = "resetHead"
            /\ fullId' = ORIG_HEAD
    /\ beforeRestore' = IF op = "restore" /\ result = "ok"
                        THEN beforeRestore ELSE NoBackup
    /\ UNCHANGED <<host, work, snap, index, commits, HEAD, ORIG_HEAD, items, todo,
                   undoUsed, restoredFrom>>

\* git.writeRef({ref: 'HEAD', value: origHead})
cancelRestore_resetHead ==
    /\ op = "cancelRestore" /\ pc = "resetHead"
    /\ HEAD' = fullId
    /\ pc' = "checkout"
    /\ UNCHANGED <<host, arg, out, work, snap, index, commits, ORIG_HEAD, op, fullId, items,
                   todo, result, pre, undoUsed, restoredFrom, beforeRestore>>

\* git.checkout({ref: origHead, filepaths: ['snapshots'], force: true}), then
\* syncSnapshotsToProject reads the project directory
cancelRestore_checkout ==
    /\ op = "cancelRestore" /\ pc = "checkout"
    /\ snap' = checkout(fullId, snap, index)
    /\ index' = TreeOf(fullId)
    /\ items' = readdir(work)
    /\ todo' = IF items' = {} THEN CopyList(snap') ELSE todo
    /\ Proceed(items', todo')
    /\ UNCHANGED <<host, arg, out, work, commits, HEAD, ORIG_HEAD, op, fullId, pre>>

Next ==
    \/ Edit
    \/ create_sync
    \/ create_add
    \/ create_commit
    \/ create_writeRef
    \/ restore_resolve
    \/ restore_saveOrigHead
    \/ restore_resetHead
    \/ restore_checkout
    \/ cancelRestore_resolve
    \/ cancelRestore_resetHead
    \/ cancelRestore_checkout
    \/ sync_remove
    \/ sync_copy

Spec == Init /\ [][Next]_vars

\* the shape of the states of Spec
TypeOK ==
    /\ HEAD \in {NoRef} \cup Ids
    /\ ORIG_HEAD \in {NoRef} \cup Ids
    /\ Len(commits) <= MaxCommits
    /\ pc \in {"done", "add", "commit", "writeRef", "saveOrig", "resetHead",
               "checkout", "remove", "copy"}

(***************************************************************************)
(* Properties.                                                             *)
(***************************************************************************)
\* two directories agree on every path create does not leave out
SameTracked(d1, d2) == \A p \in Files : ~CaptureIgnored(p) => d1[p] = d2[p]

Returned(o) == op = o /\ pc = "done"

Succeeded(o) == Returned(o) /\ result = "ok"

Materializing == op \in {"restore", "cancelRestore"}

\* C1: restore(x) followed immediately by cancelRestore() leaves every
\* non-ignored path of the working tree as it was before restore(x), also
\* when the working tree differed from HEAD's tree.
C1_RestoreCancelInverse ==
    (Succeeded("cancelRestore") /\ beforeRestore.valid)
        => SameTracked(work, beforeRestore.work)

\* C2: the commit create records holds exactly the non-ignored files of the
\* working directory, with their bytes; a file deleted since an earlier
\* checkpoint is absent from it.
C2_CreateCapturesWorkingTree ==
    Succeeded("create")
        => \A p \in Files :
              TreeOf(HEAD)[p] = IF CaptureIgnored(p) THEN Absent ELSE work[p]

\* C3: after a successful restore(x), HEAD = x and the non-ignored paths of
\* the working tree are exactly the files of x's tree with x's bytes.
C3_RestoreMaterializes ==
    Succeeded("restore")
        => /\ HEAD = fullId
           /\ SameTracked(work, TreeOf(fullId))

\* C3 witness: a restore that had to delete or overwrite a file
C3_Witness ==
    /\ Succeeded("restore")
    /\ pre.HEAD /= fullId
    /\ \E p \in Files :
          /\ ~CaptureIgnored(p)
          /\ pre.work[p] /= Absent
          /\ pre.work[p] /= TreeOf(fullId)[p]

\* C4: in every state of restore in which HEAD has moved or the working
\* tree has changed, ORIG_HEAD already holds the HEAD of before the call.
C4_OrigHeadFirst ==
    (op = "restore" /\ (HEAD /= pre.HEAD \/ work /= pre.work))
        => ORIG_HEAD = pre.HEAD

\* C4 witness: HEAD has moved, nothing is checked out yet, and ORIG_HEAD,
\* which held another commit before the call, holds the previous HEAD
C4_Witness ==
    /\ op = "restore" /\ pc = "checkout"
    /\ HEAD /= pre.HEAD
    /\ pre.ORIG_HEAD /= pre.HEAD
    /\ ORIG_HEAD = pre.HEAD

\* C5 (as claimed): in create, restore and cancelRestore the ref update is
\* the last step, so in every state before it HEAD and ORIG_HEAD hold their
\* values of before the call.  In create the ref update is git.commit with
\* the git.writeRef that follows it; restore and cancelRestore end with
\* syncSnapshotsToProject.
C5_RefUpdateLast ==
    (\/ op = "create" /\ pc \in {"add", "commit"}
     \/ Materializing /\ pc /= "done")
        => (HEAD = pre.HEAD /\ ORIG_HEAD = pre.ORIG_HEAD)

\* C5 (amended): create writes no ref until git.commit stores the commit and
\* never writes ORIG_HEAD; restore and cancelRestore write the refs first:
\* before their first ref write refs and working tree are those of before
\* the call, and once the working tree is being rewritten HEAD names the
\* target and ORIG_HEAD the commit to go back to.
C5_RefOrder ==
    /\ (op = "create" /\ pc \in {"add", "commit"})
          => HEAD = pre.HEAD
    /\ op = "create" => ORIG_HEAD = pre.ORIG_HEAD
    /\ (op = "restore" /\ pc = "saveOrig")
          => (HEAD = pre.HEAD /\ ORIG_HEAD = pre.ORIG_HEAD /\ work = pre.work)
    /\ (op = "restore" /\ (pc \in {"remove", "copy"} \/ work /= pre.work))
          => (HEAD = fullId /\ ORIG_HEAD = pre.HEAD)
    /\ (op = "cancelRestore" /\ pc = "resetHead")
          => (HEAD = pre.HEAD /\ work = pre.work)
    /\ (op = "cancelRestore" /\ (pc \in {"remove", "copy"} \/ work /= pre.work))
          => HEAD = pre.ORIG_HEAD
    /\ op = "cancelRestore" => ORIG_HEAD = pre.ORIG_HEAD

\* C5 witness: restore is rewriting the working tree and HEAD has moved
C5_Witness ==
    /\ op = "restore" /\ pc \in {"remove", "copy"}
    /\ work /= pre.work
    /\ HEAD /= pre.HEAD

\* C6: at every step of restore and cancelRestore the non-ignored content of
\* the working tree is its content of before the operation or the complete
\* tree of the commit HEAD names.
C6_NoPartialTree ==
    Materializing
        => \/ SameTracked(work, pre.work)
           \/ (HEAD /= NoRef /\ SameTracked(work, TreeOf(HEAD)))

\* C7: cancelRestore without ORIG_HEAD fails with NoPendingRestore and
\* leaves HEAD, ORIG_HEAD and the working tree unchanged.
C7_CancelWithoutOrigHead ==
    (op = "cancelRestore" /\ pre.ORIG_HEAD = NoRef)
        => /\ pc = "done"
           /\ result = "NoPendingRestore"
           /\ HEAD = pre.HEAD
           /\ ORIG_HEAD = NoRef
           /\ work = pre.work

\* C7 witness: a project with checkpoints on which no restore was performed
C7_Witness ==
    /\ Returned("cancelRestore")
    /\ pre.ORIG_HEAD = NoRef
    /\ HEAD /= NoRef
    /\ result = "NoPendingRestore"

\* C8: after a successful cancelRestore, a second cancelRestore with no
\* restore in between fails with NoPendingRestore.
C8_UndoSingleUse ==
    (Returned("cancelRestore") /\ pre.undoUsed)
        => result = "NoPendingRestore"

\* C9: ORIG_HEAD holds one level of history: a successful restore leaves
\* ORIG_HEAD at the HEAD of before that call, whatever ORIG_HEAD held, and a
\* successful cancelRestore sets HEAD to the HEAD of before the most recent
\* restore and materializes that commit's tree.
C9_SingleLevelUndo ==
    /\ Succeeded("restore") => ORIG_HEAD = pre.HEAD
    /\ Succeeded("cancelRestore")
          => /\ HEAD = restoredFrom
             /\ SameTracked(work, TreeOf(restoredFrom))

\* C9 witness: a second restore overwrote the commit the first one saved
C9_Witness ==
    /\ Succeeded("restore")
    /\ pre.ORIG_HEAD \notin {NoRef, pre.HEAD}
    /\ fullId /= pre.HEAD
    /\ ORIG_HEAD = pre.HEAD

\* C10: every path create leaves out under the ignore rules is untouched by
\* restore and cancelRestore.
C10_IgnoredUntouched ==
    Materializing
        => \A p \in Files : CaptureIgnored(p) => work[p] = pre.work[p]

\* C11: restore resolves its argument against the stored commits: a prefix
\* of exactly one stored id restores that commit, a prefix of none fails
\* with NotFound, and a prefix of two or more fails with Ambiguous, an
\* outcome other than NotFound, without restoring any of the matches.
C11_PrefixResolution ==
    Returned("restore")
        => /\ Matches(arg.id) = {} => result = "NotFound"
           /\ Cardinality(Matches(arg.id)) >= 2 => result = "Ambiguous"
           /\ Cardinality(Matches(arg.id)) = 1
                 => /\ result = "ok"
                    /\ fullId \in Matches(arg.id)
                    /\ HEAD = fullId

\* C12: a restore that fails because its argument names no stored commit,
\* or several, leaves HEAD, ORIG_HEAD, the stored commits and the working
\* tree as they were.
C12_FailedRestoreChangesNothing ==
    (Returned("restore") /\ Cardinality(Matches(arg.id)) /= 1)
        => /\ result /= "ok"
           /\ HEAD = pre.HEAD
           /\ ORIG_HEAD = pre.ORIG_HEAD
           /\ commits = pre.commits
           /\ work = pre.work

\* C12 witness: a short id of two stored commits was refused while a
\* restore was pending and the working tree had been edited since
C12_Witness ==
    /\ Returned("restore")
    /\ Cardinality(Matches(arg.id)) >= 2
    /\ result /= "ok"
    /\ ORIG_HEAD /= NoRef
    /\ ~SameTracked(work, TreeOf(HEAD))

(***************************************************************************)
(* The history and its listing: checkpoints of several messages, made at   *)
(* several times of the clock, in one working tree.                        *)
(***************************************************************************)
MaxTime == 2

Times == 1..MaxTime

\* a plain message and one in the form the prompt hook writes
Messages == {"init", "Session: ab12 - fix"}

\* limits and session filters of list; 0 and "" leave the option out
Limits == {0, 1}

SessionFilters == {"", "ab"}

\* the hook's description of the prompt: its first 100 characters on one
\* line, or 'Claude prompt' for an empty prompt
promptSummary(prompt) ==
    IF prompt /= "" THEN replaceAll(slice(prompt, 100), "\n", " ")
    ELSE "Claude prompt"

\* the message the hook passes to create
hookMessage(session_id, prompt) ==
    "Session: " \o slice(session_id, 8) \o " - " \o promptSummary(prompt)

\* the session the assistant runs, and what its user submits
SessionId == "ab12cd34-ef56"

Prompts == {"fix", ""}

\* handleClaudeCodeHook on a UserPromptSubmit event of the session: the
\* session id goes to the environment, the message to create
create_hook ==
    create_call({hookMessage(SessionId, p) : p \in Prompts}, {SessionId},
                MaxCommits)

InitLog ==
    /\ Init
    /\ \A p \in Files : work[p] = (IF p \in Editable THEN "1" ELSE Absent)

create_syncLog == create_call(Messages, {""}, MaxCommits)

create_commitLog == create_commitAt(Times)

list_log == list_call(Limits, SessionFilters)

NextLog ==
    \/ create_syncLog
    \/ create_hook
    \/ create_add
    \/ create_commitLog
    \/ create_writeRef
    \/ list_log
    \/ status_call

SpecLog == InitLog /\ [][NextLog]_vars

\* C13: after create(message) returns c, c.id names a newly stored commit
\* whose parent is the commit HEAD named before the call (none without a
\* HEAD), HEAD is c.id, and c is the first entry of list() with the message
\* that was passed; the first create of a project gives a list of length 1.
C13_CreateThenList ==
    Succeeded("create")
        => /\ Matches(out.id) = {Len(commits)}
           /\ Len(commits) = Len(pre.commits) + 1
           /\ commits[Len(commits)].parent = pre.HEAD
           /\ Oid(HEAD) = out.id
           /\ list(NoArgs) /= <<>>
           /\ list(NoArgs)[1].id = out.id
           /\ list(NoArgs)[1].message = arg.message
           /\ pre.commits = <<>> => Len(list(NoArgs)) = 1

\* C14: create leaves ORIG_HEAD as it was, present or absent, at every
\* step; so a cancelRestore called while ORIG_HEAD is present, whatever
\* creates followed the restore, succeeds and sets HEAD to the commit that
\* restore saved.
C14_CreateKeepsOrigHead ==
    /\ op = "create" => ORIG_HEAD = pre.ORIG_HEAD
    /\ (Idle /\ ORIG_HEAD /= NoRef) => ORIG_HEAD = restoredFrom
    /\ (Returned("cancelRestore") /\ pre.ORIG_HEAD /= NoRef)
          => /\ result = "ok"
             /\ HEAD = pre.ORIG_HEAD

\* C14 witness: a create returned while a restore was pending, not yet
\* cancelled, and ORIG_HEAD still names the commit that restore saved
C14_Witness ==
    /\ Succeeded("create")
    /\ pre.ORIG_HEAD /= NoRef
    /\ ~undoUsed
    /\ ORIG_HEAD = restoredFrom
    /\ HEAD /= ORIG_HEAD

(***************************************************************************)
(* Differences: one tracked file, edited between checkpoints; restore and  *)
(* diff called with full ids and short ids.                                *)
(***************************************************************************)
InitDiff ==
    /\ Init
    /\ \A p \in Files \ Editable : work[p] = Absent

diff_ids == diff_call(RestoreArgs)

NextDiff ==
    \/ Edit
    \/ create_sync
    \/ create_add
    \/ create_commit
    \/ create_writeRef
    \/ restore_resolve
    \/ restore_saveOrigHead
    \/ restore_resetHead
    \/ restore_checkout
    \/ sync_remove
    \/ sync_copy
    \/ diff_ids

SpecDiff == InitDiff /\ [][NextDiff]_vars

\* the commit a full id names
CommitOf(id) == CHOOSE i \in Matches(id) : TRUE

\* the entries the claims require of diff(t): one per project file whose
\* presence or content differs between t's tree and HEAD's tree
Differences(t) ==
    {[type |-> "deleted", path |-> p] :
        p \in {f \in Files : TreeOf(t)[f] /= Absent
                               /\ TreeOf(HEAD)[f] = Absent}}
    \cup {[type |-> "added", path |-> p] :
        p \in {f \in Files : TreeOf(t)[f] = Absent
                               /\ TreeOf(HEAD)[f] /= Absent}}
    \cup {[type |-> "modified", path |-> p] :
        p \in {f \in Files : /\ TreeOf(t)[f] /= Absent
                               /\ TreeOf(HEAD)[f] /= Absent
                               /\ TreeOf(t)[f] /= TreeOf(HEAD)[f]}}

\* C15: diff(t) returns exactly one entry for each project file whose
\* presence or content differs between t's tree and HEAD's tree, typed
\* deleted, added or modified, its path relative to the project root, and
\* no other entry.
C15_DiffExact ==
    (Succeeded("diff") /\ Len(arg.id) = OidLength /\ Matches(arg.id) /= {})
        => /\ {out[i] : i \in 1..Len(out)} = Differences(CommitOf(arg.id))
           /\ Len(out) = Cardinality(Differences(CommitOf(arg.id)))

\* C16: diff of the commit HEAD names against itself is empty, and a diff(x)
\* called right after a successful restore(x), or a create that returned x,
\* returns the empty sequence.
C16_DiffOfHeadEmpty ==
    /\ []((Succeeded("diff") /\ arg.id = Oid(HEAD)) => out = <<>>)
    /\ [][(/\ Succeeded("restore") \/ Succeeded("create")
           /\ op' = "diff"
           /\ arg'.id = Oid(fullId))
              => (result' = "ok" /\ out' = <<>>)]_vars

\* C16 witness: diff(x) returned after restore(x) made a commit with a
\* file in it the HEAD
C16_Witness ==
    /\ Succeeded("diff")
    /\ beforeRestore.valid
    /\ arg.id = Oid(HEAD)
    /\ HEAD /= Len(commits)
    /\ TreeOf(HEAD) /= NoFiles

\* C17: diff(id) with an id that names no stored commit fails with
\* NotFound, also where there is a HEAD to compare with; it does not return
\* a change list.
C17_DiffUnknownId ==
    (Returned("diff") /\ HEAD /= NoRef /\ Matches(arg.id) = {})
        => result = "NotFound"

C19_ListWalkOrder ==
    (Returned("list") /\ arg.limit = 0 /\ arg.sessionId = "")
        => /\ Len(out) = Len(history(HEAD, Unbounded))
           /\ \A i \in 1..Len(out) :
                 out[i].id = Oid(history(HEAD, Unbounded)[i])

(***************************************************************************)
(* A long history: one checkpoint after the other, listed and counted.     *)
(***************************************************************************)
MaxHistory == 101

create_syncLong == create_call({DefaultMessage}, {""}, MaxHistory)

list_all == list_call({0}, {""})

NextLong ==
    \/ create_syncLong
    \/ create_add
    \/ create_commit
    \/ create_writeRef
    \/ list_all
    \/ status_call

SpecLong == InitLog /\ [][NextLong]_vars

\* C20: list() without a limit returns every commit of the parent chain
\* from HEAD, as many as status() counts in totalCheckpoints, however long
\* the history is.
C20_ListUnbounded ==
    (Returned("list") /\ arg.limit = 0 /\ arg.sessionId = "")
        => /\ Len(out) = status.totalCheckpoints
           /\ Len(out) = Len(history(HEAD, Unbounded))

\* the stored commit an entry of list names
Listed(cp) == commits[CommitOf(cp.id)]

\* the message a commit was created with: what is stored, less the final
\* newline git adds
Passed(commit) == trimEnd(commit.message, "\n")

\* C21: list gives a commit whose message has the form
\* `Session: <sessionId> - <text>` that sessionId and the message <text>,
\* and every other commit the sessionId "manual" and its message unchanged;
\* a checkpoint the hook created for a session is listed with that
\* session's id.
C21_SessionParsed ==
    (Returned("list") /\ arg.sessionId = "")
        => \A i \in 1..Len(out) :
              IF sessionMatch(Passed(Listed(out[i]))) /= <<>>
              THEN /\ out[i].sessionId
                        = sessionMatch(Passed(Listed(out[i])))[1]
                   /\ out[i].message
                        = sessionMatch(Passed(Listed(out[i])))[2]
              ELSE /\ out[i].sessionId = "manual"
                   /\ out[i].message \in {Passed(Listed(out[i])),
                                           Listed(out[i]).message}

(***************************************************************************)
(* Every operation of the manager over one tracked file.                   *)
(***************************************************************************)
\* days of clean and the clock readings it is called at
Days == {0, 1}

Nows == {Epoch + 1}

diff_some == diff_call({Oid(1), "a"})

clean_some == clean_call(Days, Nows)

NextFull ==
    \/ Edit
    \/ create_sync
    \/ create_add
    \/ create_commit
    \/ create_writeRef
    \/ restore_resolve
    \/ restore_saveOrigHead
    \/ restore_resetHead
    \/ restore_checkout
    \/ cancelRestore_resolve
    \/ cancelRestore_resetHead
    \/ cancelRestore_checkout
    \/ sync_remove
    \/ sync_copy
    \/ list_all
    \/ status_call
    \/ diff_some
    \/ clean_some

SpecFull == InitDiff /\ [][NextFull]_vars

\* the commits on the parent chain from commit id
Reachable(id) ==
    {ancestor(id, k) : k \in 0..Len(commits)} \ {NoRef}

FirstCapture(dir) == add(syncProjectToSnapshots(dir, NoFiles), NoFiles)

\* C23: the tree create records depends on the directory content only: it
\* is the tree a create with no history records over the same content,
\* whatever ran before; and a create called on the working tree that
\* restore(x) left records x's tree.
C23_CaptureDeterministic ==
    Succeeded("create")
        => /\ TreeOf(fullId) = FirstCapture(work)
           /\ (pre.HEAD /= NoRef /\ SameTracked(pre.work, TreeOf(pre.HEAD)))
                 => TreeOf(fullId) = TreeOf(pre.HEAD)

(***************************************************************************)
(* Several projects.  Every operation takes process.cwd() as the project   *)
(* path and works in the checkpoint directory of its project id; a change  *)
(* of directory between two commands brings in the directory and the       *)
(* checkpoint directory of the path the next commands run at.              *)
(***************************************************************************)
\* the checkpoint directory of a project id
checkpointDirOf(projectId) ==
    IF projectId = getProjectId(projectPath) THEN Repository
    ELSE projects[projectId]

\* process.cwd() becomes next: the operations now read and write the
\* directory at next and the checkpoint directory of its project id
moveTo(next) ==
    LET left == [dirs EXCEPT ![realpath(projectPath)] = work]
        kept == [projects EXCEPT ![getProjectId(projectPath)] = Repository]
        checkpointDir == kept[getProjectId(next)]
    IN  /\ projectPath' = next
        /\ work' = left[realpath(next)]
        /\ dirs' = [left EXCEPT ![realpath(next)] = NoFiles]
        /\ projects' = [kept EXCEPT ![getProjectId(next)] = NoRepository]
        /\ snap' = checkpointDir.snap
        /\ index' = checkpointDir.index
        /\ commits' = checkpointDir.commits
        /\ HEAD' = checkpointDir.HEAD
        /\ ORIG_HEAD' = checkpointDir.ORIG_HEAD
        /\ undoUsed' = checkpointDir.undoUsed
        /\ restoredFrom' = checkpointDir.restoredFrom
        /\ beforeRestore' = checkpointDir.beforeRestore

chdir(paths) ==
    /\ Idle
    /\ \E path \in paths :
        \E next \in cwd(path) :
            /\ next /= projectPath
            /\ moveTo(next)
    /\ op' = "chdir"
    /\ result' = "ok"
    /\ arg' = NoArgs
    /\ out' = <<>>
    /\ pre' = [work |-> work', HEAD |-> HEAD', ORIG_HEAD |-> ORIG_HEAD',
               undoUsed |-> undoUsed', commits |-> commits']
    /\ UNCHANGED <<peer, pc, fullId, items, todo, hook, stdout, settings,
                   customPatterns>>

\* the commits a project may hold where several projects are modelled
MaxPerProject == 1

create_syncAt == create_call({DefaultMessage}, {""}, MaxPerProject)

chdir_any == chdir(Paths)

NextProjects ==
    \/ chdir_any
    \/ create_syncAt
    \/ create_add
    \/ create_commit
    \/ create_writeRef
    \/ restore_resolve
    \/ restore_saveOrigHead
    \/ restore_resetHead
    \/ restore_checkout
    \/ cancelRestore_resolve
    \/ cancelRestore_resetHead
    \/ cancelRestore_checkout
    \/ sync_remove
    \/ sync_copy

SpecProjects == InitLog /\ [][NextProjects]_vars

\* the checkpoint directories and directories of the other projects
Elsewhere == <<projects, dirs>>

\* C24: projects are isolated.  A command that runs in the same directory
\* as the command before it, reached through whatever path (a symbolic
\* link, `.` or `..` segments), works on the same project id; and no step of
\* create, restore or cancelRestore changes the commits, HEAD, ORIG_HEAD or
\* snapshot of a project with another id.
C24_ProjectIsolation ==
    [][/\ realpath(projectPath') = realpath(projectPath)
            => getProjectId(projectPath') = getProjectId(projectPath)
       /\ op' \in {"create", "restore", "cancelRestore"}
            => projects' = projects]_vars

(***************************************************************************)
(* Failures of the file system.  Any awaited call of a running operation   *)
(* may reject; the operation ends there and the caller sees what the       *)
(* operation throws.                                                       *)
(***************************************************************************)
\* cancelRestore rethrows whatever was thrown inside its try block as
\* 'No restore to cancel - ORIG_HEAD not found'; create and restore let the
\* error of safeGitOperation or of fs-extra through
thrown(operation) ==
    IF operation = "cancelRestore" THEN "NoPendingRestore" ELSE "IOError"

reject(operations) ==
    /\ ~Idle
    /\ op \in operations
    /\ pc' = "done"
    /\ result' = thrown(op)
    /\ UNCHANGED <<host, arg, out, work, snap, index, commits, HEAD,
                   ORIG_HEAD, op, fullId, items, todo, pre, undoUsed,
                   restoredFrom, beforeRestore>>

(***************************************************************************)
(* handleClaudeCodeHook.  The assistant passes the event as JSON text, as  *)
(* the argument of `ccheckpoint hook` or on standard input.                *)
(***************************************************************************)
OtherEvent == "{\"hook_event_name\":\"Stop\",\"session_id\":\"ab12cd34-ef56\"}"

NoSession == "{\"hook_event_name\":\"UserPromptSubmit\",\"prompt\":\"fix\"}"

NoPrompt ==
    "{\"hook_event_name\":\"UserPromptSubmit\",\"session_id\":\"ab12cd34-ef56\"}"

Submit ==
    "{\"hook_event_name\":\"UserPromptSubmit\",\"session_id\":\"ab12cd34-ef56\""
        \o ",\"prompt\":\"fix\"}"

\* what the hook may be given: nothing, text that is no JSON, JSON that is
\* no object, and objects with and without the keys the hook reads
Texts == {"", "not json", "null", "{}", OtherEvent, NoSession, NoPrompt,
          Submit}

\* an object without keys; a key that is absent is read as ''
EmptyObject ==
    [object |-> TRUE, hook_event_name |-> "", session_id |-> "",
     prompt |-> ""]

\* JSON.parse on the texts of the model: the value, or a SyntaxError
JSON_parse(text) ==
    CASE text = "null" ->
            [error |-> FALSE, value |-> [EmptyObject EXCEPT !.object = FALSE]]
      [] text = "{}" -> [error |-> FALSE, value |-> EmptyObject]
      [] text = OtherEvent ->
            [error |-> FALSE,
             value |-> [EmptyObject EXCEPT !.hook_event_name = "Stop",
                                           !.session_id = SessionId]]
      [] text = NoSession ->
            [error |-> FALSE,
             value |-> [EmptyObject EXCEPT
                            !.hook_event_name = "UserPromptSubmit",
                            !.prompt = "fix"]]
      [] text = NoPrompt ->
            [error |-> FALSE,
             value |-> [EmptyObject EXCEPT
                            !.hook_event_name = "UserPromptSubmit",
                            !.session_id = SessionId]]
      [] text = Submit ->
            [error |-> FALSE,
             value |-> [EmptyObject EXCEPT
                            !.hook_event_name = "UserPromptSubmit",
                            !.session_id = SessionId,
                            !.prompt = "fix"]]
      [] OTHER -> [error |-> TRUE, value |-> EmptyObject]

\* the hook data: the argument if it parses, else what standard input
\* holds, {} if it holds nothing; a SyntaxError of standard input is thrown
hookData(hookDataString, stdinData) ==
    LET fromStdin == IF stdinData /= "" THEN JSON_parse(stdinData)
                     ELSE [error |-> FALSE, value |-> EmptyObject]
    IN  IF hookDataString /= "" /\ ~JSON_parse(hookDataString).error
        THEN JSON_parse(hookDataString)
        ELSE fromStdin

\* typeof hookData === 'object' && hookData && key in hookData
\*     ? String(hookData[key]) : ''
field(data, key) == IF data.object THEN data[key] ELSE ""

\* the decisions the hook writes
Allow == [allow |-> TRUE, context |-> ""]

Created(id) ==
    [allow |-> TRUE, context |-> "Checkpoint created: " \o slice(id, 8)]

Failed_deny(message) ==
    [allow |-> FALSE, context |-> "Checkpoint failed: " \o message]

Failed(message) ==
    [allow |-> TRUE, context |-> "Checkpoint failed: " \o message]

HookError == [allow |-> TRUE, context |-> "Hook error"]

Returning == [hook EXCEPT !.pc = "returned"]

\* the hook up to its call of create: it reads the event and answers at
\* once unless a UserPromptSubmit of a session is to be checkpointed
hook_call(hookDataStrings, stdinDatas) ==
    /\ Idle
    /\ hook.pc \in {"none", "returned"}
    /\ \E hookDataString \in hookDataStrings, stdinData \in stdinDatas :
        LET data == hookData(hookDataString, stdinData)
            session_id == field(data.value, "session_id")
            prompt == field(data.value, "prompt")
            hook_event_name == field(data.value, "hook_event_name")
            parsed == [pc |-> "parsed", hook_event_name |-> hook_event_name,
                       session_id |-> session_id, prompt |-> prompt,
                       projectDir |-> <<>>, originalCwd |-> <<>>]
        IN  IF data.error
            THEN /\ stdout' = <<HookError>>
                 /\ hook' = [NoHook EXCEPT !.pc = "returned"]
            ELSE IF hook_event_name /= "UserPromptSubmit" \/ session_id = ""
            THEN /\ stdout' = <<Allow>>
                 /\ hook' = [parsed EXCEPT !.pc = "returned"]
            ELSE /\ Len(commits) < MaxCommits
                 /\ stdout' = <<>>
                 /\ hook' = parsed
    /\ op' = "hook"
    /\ result' = "ok"
    /\ arg' = NoArgs
    /\ out' = <<>>
    /\ pre' = Context
    /\ UNCHANGED <<peer, work, snap, index, commits, HEAD, ORIG_HEAD, pc, fullId,
                   items, todo, undoUsed, restoredFrom, beforeRestore,
                   projectPath, projects, dirs, settings, customPatterns>>

\* process.chdir(projectDir) throws (CLAUDE_PROJECT_DIR names no directory):
\* the inner catch answers
hook_chdir ==
    /\ hook.pc = "parsed"
    /\ op = "hook"
    /\ stdout' = Append(stdout, Failed("ENOENT"))
    /\ hook' = Returning
    /\ UNCHANGED <<peer, work, snap, index, commits, HEAD, ORIG_HEAD, op, pc,
                   fullId, items, todo, result, arg, out, pre, undoUsed,
                   restoredFrom, beforeRestore, projectPath, projects, dirs,
                   settings, customPatterns>>

\* a hook that creates the checkpoint in the directory it was started in
hook_enter_cwd(projectDirs) ==
    /\ hook.pc = "parsed"
    /\ op = "hook"
    /\ \E CLAUDE_PROJECT_DIR \in projectDirs \cup {<<>>} :
        LET projectDir == IF CLAUDE_PROJECT_DIR = <<>> THEN projectPath
                          ELSE CLAUDE_PROJECT_DIR
        IN  hook' = [hook EXCEPT !.pc = "entered", !.projectDir = projectDir,
                                 !.originalCwd = projectPath]
    /\ UNCHANGED <<peer, work, snap, index, commits, HEAD, ORIG_HEAD, op, pc,
                   fullId, items, todo, result, arg, out, pre, undoUsed,
                   restoredFrom, beforeRestore, projectPath, projects, dirs,
                   stdout, settings, customPatterns>>

\* const projectDir = process.env.CLAUDE_PROJECT_DIR || process.cwd();
\* originalCwd = process.cwd(); process.chdir(projectDir).  The variable is
\* one of the given paths, or unset (the empty path).
hook_enter(projectDirs) ==
    /\ hook.pc = "parsed"
    /\ op = "hook"
    /\ \E CLAUDE_PROJECT_DIR \in projectDirs \cup {<<>>} :
        LET projectDir == IF CLAUDE_PROJECT_DIR = <<>> THEN projectPath
                          ELSE CLAUDE_PROJECT_DIR
            next == IF CLAUDE_PROJECT_DIR = <<>> THEN projectPath
                    ELSE realpath(projectDir)
        IN  /\ Len(checkpointDirOf(getProjectId(next)).commits) < MaxCommits
            /\ moveTo(next)
            /\ hook' = [hook EXCEPT !.pc = "entered",
                                    !.projectDir = projectDir,
                                    !.originalCwd = projectPath]
    /\ UNCHANGED <<peer, op, pc, fullId, items, todo, result, arg, out, pre,
                   stdout, settings, customPatterns>>

\* CLAUDE_PROJECT_DIR is not set
hook_stay == hook_enter({})

\* the hook calls create with the message it built; the session id goes
\* through the environment
hook_create ==
    /\ hook.pc = "entered"
    /\ op = "hook"
    /\ create_call({hookMessage(hook.session_id, hook.prompt)},
                   {hook.session_id}, MaxCommits)

\* create returned or threw: the hook answers
\* create returned: process.chdir(originalCwd) and the hook answers; create
\* threw: the inner catch answers
hook_return ==
    /\ hook.pc = "entered"
    /\ Returned("create")
    /\ IF result = "ok"
       THEN /\ moveTo(hook.originalCwd)
            /\ stdout' = Append(stdout, Created(out.id))
       ELSE /\ stdout' = Append(stdout, Failed(result))
            /\ UNCHANGED <<work, snap, index, commits, HEAD, ORIG_HEAD,
                           undoUsed, restoredFrom, beforeRestore,
                           projectPath, projects, dirs>>
    /\ hook' = Returning
    /\ UNCHANGED <<peer, op, pc, fullId, items, todo, result, arg, out, pre,
                   settings, customPatterns>>

hook_any == hook_call(Texts, Texts)

reject_create == reject({"create"})

NextHook ==
    \/ hook_any
    \/ hook_chdir
    \/ hook_stay
    \/ hook_create
    \/ create_add
    \/ create_commit
    \/ create_writeRef
    \/ reject_create
    \/ hook_return

\* every awaited call settles: readStdin resolves after one second at the
\* latest
SpecHook == InitLog /\ [][NextHook]_vars /\ WF_vars(NextHook)

\* C25: the hook never blocks.  Whatever it is given (nothing, text that is
\* no JSON, another event, no session id) and whether create succeeds or
\* throws, the hook ends, and when it has ended it has written exactly one
\* decision, whose `allow` is true; it writes none before.
C25_HookNeverBlocks ==
    /\ [](hook.pc = "returned" => Len(stdout) = 1 /\ stdout[1].allow)
    /\ [](hook.pc \in {"parsed", "entered"} => stdout = <<>>)
    /\ (hook.pc = "parsed") ~> (hook.pc = "returned")

\* C25 witness: create threw after it had stored its commit, and the hook
\* answered with the failure
C25_Witness ==
    /\ hook.pc = "returned"
    /\ Returned("create")
    /\ result = "IOError"
    /\ Len(commits) > Len(pre.commits)
    /\ stdout = <<Failed("IOError")>>

(***************************************************************************)
(* `ccheckpoint setup`: tryAutoConfigureClaudeCode adds the hook to the    *)
(* first settings file that exists, the global one if none does.           *)
(***************************************************************************)
HookCommand == "ccheckpoint hook"

\* the entries a user has under an event, and the settings files a user
\* has written
OwnEntries == {<<>>, <<<<"echo hi">>>>, <<<<"echo hi">>, <<"lint", "date">>>>}

OwnFiles ==
    {NoFile, Unparsable}
        \cup {f \in [exists : {TRUE}, json : {TRUE}, model : {"", "opus"},
                     hooks : BOOLEAN, PreToolUse : {<<>>, <<<<"lint">>>>},
                     hasUserPromptSubmit : BOOLEAN,
                     UserPromptSubmit : OwnEntries, backup : {FALSE}] :
                /\ f.hasUserPromptSubmit => f.hooks
                /\ f.PreToolUse /= <<>> => f.hooks
                /\ f.UserPromptSubmit /= <<>> => f.hasUserPromptSubmit}

\* the first of possibleConfigPaths that exists, else the first
targetConfigPath ==
    LET existing == {i \in 1..Len(possibleConfigPaths) :
                        settings[possibleConfigPaths[i]].exists}
    IN  possibleConfigPaths[IF existing = {} THEN 1 ELSE Min(existing)]

\* fs.readJSON, or {} for no file and for a file that does not parse
readSettings(file) ==
    IF file.exists /\ file.json THEN file
    ELSE [EmptySettings EXCEPT !.backup = file.backup]

existingHook_none(file) == FALSE

\* settings.hooks.UserPromptSubmit.find(hook => hook.hooks &&
\*     hook.hooks.some(h => h.command && h.command.includes(...)))
existingHook(file) ==
    \E i \in 1..Len(file.UserPromptSubmit) :
        \E j \in 1..Len(file.UserPromptSubmit[i]) :
            Includes(file.UserPromptSubmit[i][j], HookCommand)

\* the file after tryAutoConfigureClaudeCode wrote it
configured(file) ==
    LET read == readSettings(file)
    IN  IF existingHook(read) THEN file
        ELSE [read EXCEPT !.hooks = TRUE,
                          !.hasUserPromptSubmit = TRUE,
                          !.UserPromptSubmit = Append(@, <<HookCommand>>),
                          !.backup = @ \/ (file.exists /\ ~file.json)]

\* tryAutoConfigureClaudeCode; a rejected fs call leaves the settings file
\* as it is and gives success: false
setup ==
    /\ Idle
    /\ op' = "setup"
    /\ arg' = NoArgs
    /\ pre' = Context
    /\ \E written \in BOOLEAN :
        /\ result' = IF written THEN "ok" ELSE "IOError"
        /\ out' = [success |-> written, configPath |-> targetConfigPath]
        /\ settings' = IF written
                       THEN [settings EXCEPT ![targetConfigPath] = configured(@)]
                       ELSE settings
    /\ UNCHANGED <<peer, work, snap, index, commits, HEAD, ORIG_HEAD, pc, fullId,
                   items, todo, undoUsed, restoredFrom, beforeRestore,
                   projectPath, projects, dirs, hook, stdout, customPatterns>>

\* the user writes or removes a settings file of their own
editSettings ==
    /\ Idle
    /\ \E i \in 1..Len(possibleConfigPaths) :
        \E file \in {NoFile, EmptySettings,
                     [EmptySettings EXCEPT !.model = "opus"]} :
            /\ settings[possibleConfigPaths[i]] /= file
            /\ settings' = [settings EXCEPT ![possibleConfigPaths[i]] = file]
    /\ op' = "edit"
    /\ result' = "ok"
    /\ arg' = NoArgs
    /\ out' = <<>>
    /\ pre' = Context
    /\ UNCHANGED <<peer, work, snap, index, commits, HEAD, ORIG_HEAD, pc, fullId,
                   items, todo, undoUsed, restoredFrom, beforeRestore,
                   projectPath, projects, dirs, hook, stdout, customPatterns>>

InitSetup ==
    /\ InitRepository
    /\ \A p \in Files : work[p] = (IF p \in Editable THEN "1" ELSE Absent)
    /\ projectPath = StartPath
    /\ projects = [id \in ProjectIds |-> NoRepository]
    /\ dirs = [d \in Dirs |-> NoFiles]
    /\ hook = NoHook
    /\ stdout = <<>>
    /\ customPatterns = <<>>
    /\ peer = NoProcess
    /\ settings \in {f \in [DOMAIN NoSettings -> OwnFiles] :
                        /\ f["project"] \in {NoFile, Unparsable}
                        /\ f["local"] = NoFile}

NextSetup ==
    \/ setup
    \/ editSettings

SpecSetup == InitSetup /\ [][NextSetup]_vars

\* the entries of a file under UserPromptSubmit that run the hook command
HookEntries(file) ==
    {i \in 1..Len(file.UserPromptSubmit) :
        \E j \in 1..Len(file.UserPromptSubmit[i]) :
            file.UserPromptSubmit[i][j] = HookCommand}

CustomPatterns == {"a.txt", "tmp"}

\* array.includes(x)
includes(array, x) == \E i \in 1..Len(array) : array[i] = x

RECURSIVE without(_, _)
\* array.filter(p => p !== x)
without(array, x) ==
    IF array = <<>> THEN <<>>
    ELSE (IF Head(array) = x THEN <<>> ELSE <<Head(array)>>)
            \o without(Tail(array), x)

\* ignore.patterns of the default configuration
defaultPatterns ==
    <<"node_modules", ".git", ".ccheckpoint", "dist", "build", "out",
      ".next", ".nuxt", "target", "bin", "obj", ".env*", "*.log",
      ".DS_Store", "Thumbs.db", "*.tmp", "*.temp">>

\* ConfigManager.getIgnorePatterns
getIgnorePatterns == defaultPatterns \o customPatterns

\* an operation of the ConfigManager: the configuration is saved, nothing
\* of any project is touched
Configure(name, pattern, patterns) ==
    /\ Idle
    /\ customPatterns' = patterns
    /\ op' = name
    /\ result' = "ok"
    /\ arg' = [NoArgs EXCEPT !.id = pattern]
    /\ out' = <<>>
    /\ pre' = Context
    /\ UNCHANGED <<peer, work, snap, index, commits, HEAD, ORIG_HEAD, pc, fullId,
                   items, todo, undoUsed, restoredFrom, beforeRestore,
                   projectPath, projects, dirs, hook, stdout, settings>>

addIgnorePattern(pattern) ==
    Configure("addIgnorePattern", pattern,
              IF includes(customPatterns, pattern) THEN customPatterns
              ELSE Append(customPatterns, pattern))

removeIgnorePattern(pattern) ==
    Configure("removeIgnorePattern", pattern,
              without(customPatterns, pattern))

addIgnorePattern_any ==
    \E pattern \in CustomPatterns : addIgnorePattern(pattern)

removeIgnorePattern_any ==
    \E pattern \in CustomPatterns : removeIgnorePattern(pattern)

NextConfig ==
    \/ Edit
    \/ addIgnorePattern_any
    \/ removeIgnorePattern_any
    \/ create_sync
    \/ create_add
    \/ create_commit
    \/ create_writeRef

SpecConfig == InitDiff /\ [][NextConfig]_vars

\* the set of the patterns of a list
Range(array) == {array[i] : i \in 1..Len(array)}

\* C27: a path that matches a custom ignore pattern of the configuration
\* is in no checkpoint created while the pattern is configured: create
\* applies the configured list, the default patterns and the custom ones.
C27_CustomPatternExcluded ==
    Succeeded("create")
        => \A p \in Files :
              ~Copied(p, Range(getIgnorePatterns))
                  => TreeOf(fullId)[p] = Absent

(***************************************************************************)
(* create, restore and cancelRestore where the file system may fail under  *)
(* cancelRestore.                                                          *)
(***************************************************************************)
reject_cancelRestore == reject({"cancelRestore"})

NextIO ==
    \/ Edit
    \/ create_sync
    \/ create_add
    \/ create_commit
    \/ create_writeRef
    \/ restore_resolve
    \/ restore_saveOrigHead
    \/ restore_resetHead
    \/ restore_checkout
    \/ cancelRestore_resolve
    \/ cancelRestore_resetHead
    \/ cancelRestore_checkout
    \/ sync_remove
    \/ sync_copy
    \/ reject_cancelRestore

SpecIO == InitDiff /\ [][NextIO]_vars

\* C29: failures reach the caller as what they are.  cancelRestore reports
\* NoPendingRestore exactly when ORIG_HEAD was absent when it was called; a
\* failure of the file system after ORIG_HEAD was found is reported as an
\* I/O failure.
C29_FailureReported ==
    Returned("cancelRestore")
        => (result = "NoPendingRestore" <=> pre.ORIG_HEAD = NoRef)

(***************************************************************************)
(* The read operations, also before the first commit and after a create    *)
(* that failed before it stored one.                                       *)
(***************************************************************************)
NextRead ==
    \/ create_syncLog
    \/ create_add
    \/ create_commitLog
    \/ create_writeRef
    \/ reject_create
    \/ list_log
    \/ status_call
    \/ getCurrentCheckpoint_call

SpecRead == InitLog /\ [][NextRead]_vars

\* C30: while the project has no commit, the read operations succeed with
\* empty results: list() returns the empty sequence, getCurrentCheckpoint()
\* returns nothing, status() returns totalCheckpoints = 0 and no latest
\* checkpoint.
C30_EmptyProjectReads ==
    (HEAD = NoRef /\ commits = <<>> /\ Idle)
        => /\ op \in {"list", "status", "getCurrentCheckpoint"}
                => result = "ok"
           /\ op \in {"list", "getCurrentCheckpoint"} => out = <<>>
           /\ op = "status"
                => out.totalCheckpoints = 0 /\ out.latest = <<>>

\* C30 witness: status returned on a project whose only create failed
\* before it stored a commit
C30_Witness ==
    /\ Returned("status")
    /\ commits = <<>>
    /\ HEAD = NoRef
    /\ snap /= NoFiles

(***************************************************************************)
(* The read operations between edits, creates, restores and cancels.       *)
(***************************************************************************)
\* the commits stored where every read operation is called
MaxViewed == 2

create_syncView == create_call({DefaultMessage}, {""}, MaxViewed)

NextView ==
    \/ Edit
    \/ create_syncView
    \/ create_add
    \/ create_commit
    \/ create_writeRef
    \/ restore_resolve
    \/ restore_saveOrigHead
    \/ restore_resetHead
    \/ restore_checkout
    \/ cancelRestore_resolve
    \/ cancelRestore_resetHead
    \/ cancelRestore_checkout
    \/ sync_remove
    \/ sync_copy
    \/ list_all
    \/ getCurrentCheckpoint_call
    \/ status_call
    \/ diff_some
    \/ clean_some

SpecView == InitDiff /\ [][NextView]_vars

ReadOperations == {"list", "getCurrentCheckpoint", "diff", "status", "clean"}

C32_CreateAllOrNothing ==
    Returned("create")
        => /\ out /= <<>>
                => /\ result = "ok"
                   /\ \E n \in 1..Len(commits) : Oid(n) = out.id /\ HEAD = n
           /\ result /= "ok" => out = <<>>
           /\ result \in {"ok", "IOError"}

\* C32 witness: a create failed while writing HEAD, after git.commit had
\* stored its commit, and returned nothing
C32_Witness ==
    /\ Returned("create")
    /\ result = "IOError"
    /\ out = <<>>
    /\ HEAD /= Len(commits)
    /\ Len(commits) > 1

(***************************************************************************)
(* Two processes on one project.  Nothing locks the checkpoint directory:  *)
(* between two awaited calls of one process the other process may run any  *)
(* number of its own.  The actions above are the steps of the process that *)
(* runs; the scheduler suspends it and resumes the other.                  *)
(***************************************************************************)
\* the creates two processes make between them
MaxRaced == 2

\* the process that runs: the first, or the second once it was resumed
Running == 3 - peer.process

\* The first process is suspended inside a create; the second is suspended
\* at any point and is not resumed once its operation has ended.
switch ==
    /\ IF Running = 1 THEN op = "create" /\ ~Idle
                      ELSE TRUE
    /\ Running = 1 => (peer.op = "none" \/ peer.pc /= "done")
    /\ peer' = [process |-> Running, op |-> op, pc |-> pc,
                fullId |-> fullId, items |-> items, todo |-> todo,
                result |-> result, arg |-> arg, out |-> out, pre |-> pre,
                beforeRestore |-> beforeRestore]
    /\ op' = peer.op
    /\ pc' = peer.pc
    /\ fullId' = peer.fullId
    /\ items' = peer.items
    /\ todo' = peer.todo
    /\ result' = peer.result
    /\ arg' = peer.arg
    /\ out' = peer.out
    /\ pre' = peer.pre
    /\ beforeRestore' = peer.beforeRestore
    /\ UNCHANGED <<work, snap, index, commits, HEAD, ORIG_HEAD, undoUsed,
                   restoredFrom, projectPath, projects, dirs, hook, stdout,
                   settings, customPatterns>>

\* the first process calls operations until the second one has called its
\* own; the second process calls one operation
MayCall == IF Running = 1 THEN peer.op = "none" ELSE op = "none"

\* the user edits between the operations of the first process
Edit_between == Running = 1 /\ peer.op = "none" /\ Edit

create_syncRaced ==
    MayCall /\ create_call({DefaultMessage}, {""}, MaxRaced)

restore_raced == MayCall /\ restore_resolve

cancelRestore_raced == MayCall /\ cancelRestore_resolve

NextRace ==
    \/ Edit_between
    \/ create_syncRaced
    \/ create_add
    \/ create_commit
    \/ create_writeRef
    \/ restore_raced
    \/ restore_saveOrigHead
    \/ restore_resetHead
    \/ restore_checkout
    \/ cancelRestore_raced
    \/ cancelRestore_resetHead
    \/ cancelRestore_checkout
    \/ sync_remove
    \/ sync_copy
    \/ switch

SpecRace == InitLog /\ [][NextRace]_vars

\* C33: when a create is interleaved with a restore, a cancelRestore or
\* another create of a second process, the tree of the commit the create
\* records holds what the create captured: every non-ignored file the
\* working directory held when create was called is in the tree with the
\* bytes it had then.
C33_CreateRecordsOwnCapture ==
    Succeeded("create")
        => \A p \in Files :
              (~CaptureIgnored(p) /\ pre.work[p] /= Absent)
                  => TreeOf(fullId)[p] = pre.work[p]

(***************************************************************************)
(* The hook started in one directory for a project in another.             *)
(***************************************************************************)
\* the values of CLAUDE_PROJECT_DIR: another project, and a symbolic link
\* to the directory the hook is started in
ProjectDirs == {<<"q">>, <<"link">>}

hook_in == hook_enter(ProjectDirs)

NextHookDir ==
    \/ hook_any
    \/ hook_chdir
    \/ hook_in
    \/ hook_create
    \/ create_add
    \/ create_commit
    \/ create_writeRef
    \/ reject_create
    \/ hook_return

SpecHookDir == InitLog /\ [][NextHookDir]_vars

\* the files of the directory at a path
directoryAt(path) ==
    IF realpath(path) = realpath(projectPath) THEN work
    ELSE dirs[realpath(path)]

\* the hook was given a UserPromptSubmit event with a session id
Qualifies(h) == h.hook_event_name = "UserPromptSubmit" /\ h.session_id /= ""

\* C34: the hook creates exactly one checkpoint, in the directory named by
\* CLAUDE_PROJECT_DIR (the current directory when unset), when and only
\* when the event is UserPromptSubmit and session_id is non-empty.  A hook
\* that returns for another event or without session id has changed no
\* commit and no ref of any project; the steps of a hook that goes on
\* change the checkpoint directory of the named directory only; and when
\* its create has succeeded that checkpoint directory holds one commit more
\* than before, with the files of the named directory, and HEAD names it.
C34_HookCreatesOne ==
    [][/\ (hook'.pc = "returned" /\ ~Qualifies(hook'))
            => \A id \in ProjectIds :
                  checkpointDirOf(id)' = checkpointDirOf(id)
       /\ hook'.pc \in {"parsed", "entered"} => Qualifies(hook')
       /\ (hook.pc = "entered" \/ hook'.pc = "entered")
            => \A id \in ProjectIds
                         \ {getProjectId(realpath(hook'.projectDir))} :
                  checkpointDirOf(id)' = checkpointDirOf(id)
       /\ (hook.pc = "entered" /\ hook'.pc = "returned" /\ result = "ok")
            => LET named == checkpointDirOf(
                                getProjectId(realpath(hook.projectDir)))'
                   n == Len(named.commits)
               IN  /\ n = Len(pre.commits) + 1
                   /\ SubSeq(named.commits, 1, n - 1) = pre.commits
                   /\ named.HEAD = n
                   /\ \A p \in Files :
                        named.commits[n].tree[p] =
                            IF CaptureIgnored(p) THEN Absent
                            ELSE directoryAt(hook.projectDir)'[p]]_vars

\* C34 witness: the hook, started in one directory with CLAUDE_PROJECT_DIR
\* naming another, has created its checkpoint and returned
C34_Witness ==
    /\ hook.pc = "returned"
    /\ Qualifies(hook)
    /\ Returned("create") /\ result = "ok"
    /\ realpath(hook.projectDir) /= realpath(hook.originalCwd)
    /\ checkpointDirOf(getProjectId(realpath(hook.projectDir))).commits /= <<>>

\* C40: when the hook has returned, the working directory of the process
\* is the one it had on entry, also when create failed after the hook had
\* changed to the project directory.
C40_HookRestoresCwd ==
    (hook.pc = "returned" /\ hook.originalCwd /= <<>>)
        => projectPath = hook.originalCwd

(***************************************************************************)
(* list by session                                                         *)
(***************************************************************************)
\* C35: list({sessionId: p}) returns exactly the entries of list() whose
\* session id starts with p, in the same order; and a checkpoint the hook
\* created for the session with the identifier S is among the entries of
\* list({sessionId: S}).
C35_ListBySession ==
    /\ Idle
        => \A p \in SessionFilters \cup {"manual", SessionId} :
              list([NoArgs EXCEPT !.sessionId = p])
                  = SelectSeq(list(NoArgs),
                              LAMBDA cp : StartsWith(cp.sessionId, p))
    /\ (Succeeded("create") /\ arg.sessionId = SessionId)
        => LET found == list([NoArgs EXCEPT !.sessionId = SessionId])
           IN  \E i \in 1..Len(found) : found[i].id = out.id

(***************************************************************************)
(* The refs                                                                *)
(***************************************************************************)
\* C36: after every sequence of create, restore and cancelRestore, HEAD,
\* when present, names a stored commit, and ORIG_HEAD, when present, names
\* a stored commit that was the value of HEAD when a restore was called:
\* the restore under way, or else the last restore that succeeded.
C36_RefsNameStoredCommits ==
    /\ HEAD /= NoRef => HEAD \in 1..Len(commits)
    /\ ORIG_HEAD /= NoRef
        => /\ ORIG_HEAD \in 1..Len(commits)
           /\ IF op = "restore" /\ pc \notin {"saveOrig", "done"}
              THEN ORIG_HEAD = pre.HEAD
              ELSE ORIG_HEAD = restoredFrom

\* C36 witness: a create after a restore has returned; ORIG_HEAD still
\* names the commit the restore left, which is not HEAD
C36_Witness ==
    /\ Succeeded("create")
    /\ ORIG_HEAD /= NoRef
    /\ ORIG_HEAD /= HEAD
    /\ HEAD = Len(commits)

(***************************************************************************)
(* The current checkpoint and the list                                     *)
(***************************************************************************)
\* C37: after every sequence of operations, whenever list() is not empty
\* its first entry is the current checkpoint, and so is the latest
\* checkpoint of status(): list()[0].id = getCurrentCheckpoint() =
\* status().latest.id.
C37_FirstListedIsCurrent ==
    (Idle /\ list(NoArgs) /= <<>>)
        => /\ <<list(NoArgs)[1].id>> = getCurrentCheckpoint
           /\ status.latest /= <<>>
           /\ <<status.latest[1].id>> = getCurrentCheckpoint

(***************************************************************************)
(* list after restore and cancelRestore, also on a history longer than the *)
(* default depth of list.                                                  *)
(***************************************************************************)
\* restore once the history is long
restore_late == Len(commits) = MaxHistory /\ restore_resolve

NextLongUndo ==
    \/ create_syncLong
    \/ create_add
    \/ create_commit
    \/ create_writeRef
    \/ restore_late
    \/ restore_saveOrigHead
    \/ restore_resetHead
    \/ restore_checkout
    \/ cancelRestore_resolve
    \/ cancelRestore_resetHead
    \/ cancelRestore_checkout
    \/ sync_remove
    \/ sync_copy

SpecLongUndo == InitLog /\ [][NextLongUndo]_vars

\* the ids list() shows
ListedIds ==
    LET listed == list(NoArgs)
    IN  {listed[i].id : i \in 1..Len(listed)}

\* the ids of a commit and its ancestors
ChainIds(id) == {Oid(n) : n \in Reachable(id)}

\* C38: list() shows the parent chain of HEAD.  After restore(x) it returns
\* exactly x and its ancestors; a create records the commit HEAD named as
\* the parent of its commit, so after restore(x) that is x; after
\* cancelRestore() list() returns exactly the commit HEAD had before the
\* restore and its ancestors, which leaves out a checkpoint created after
\* the restore, and every commit stays stored.
C38_ListFollowsHead ==
    /\ Succeeded("restore") => ListedIds = ChainIds(fullId)
    /\ Succeeded("create") => commits[fullId].parent = pre.HEAD
    /\ Succeeded("cancelRestore")
        => /\ ListedIds = ChainIds(pre.ORIG_HEAD)
           /\ Len(commits) = Len(pre.commits)

(***************************************************************************)
(* What create returns and what list reports                               *)
(***************************************************************************)
\* C39: the Checkpoint create returned agrees with the entry of list() for
\* the same commit: the entry whose id is the returned id has the returned
\* sessionId and the returned message, for a create with or without a
\* session and for a create of the hook.
C39_CreateAgreesWithList ==
    Succeeded("create")
        => LET listed == list(NoArgs)
           IN  /\ \E i \in 1..Len(listed) : listed[i].id = out.id
               /\ \A i \in 1..Len(listed) :
                     listed[i].id = out.id
                        => /\ listed[i].sessionId = out.sessionId
                           /\ listed[i].message = out.message

====
